---- MODULE Spec2Model ----
(***************************************************************************)
(* A model of the ItemStack database of src/scripts/main.js: the class     *)
(* AsyncQueue (lines 27-67), the module-level singletons globalAsyncQueue  *)
(* and itemMemory (line 70) and the class SRCItemDatabase (lines 87-357),  *)
(* driven against the host's structure manager and the item entities that *)
(* live at SRCItemDatabase.location.                                       *)
(*                                                                         *)
(* Strings are sequences of one-character strings, so that length checks, *)
(* startsWith and split are computed as the code computes them.           *)
(*                                                                         *)
(* JavaScript runs one synchronous turn at a time.  Every action below is  *)
(* one such turn: a client call (with everything it calls synchronously,   *)
(* the start of queued tasks included) or the resumption of one suspended  *)
(* await.  Turns of different origins interleave freely.                   *)
(***************************************************************************)
EXTENDS Integers, Sequences, FiniteSets, TLC

VARIABLES
    hostNewItem,  \* the host's global object has a property "newItem" (see SetTask)
    structures,   \* world.structureManager: identifier -> saved structure
    itemMemory,   \* the Map itemMemory (line 70): identifier -> cached value
    entities,     \* the item entities alive at SRCItemDatabase.location
    queue,        \* globalAsyncQueue.queue (line 30)
    processing,   \* globalAsyncQueue.processing (line 32)
    frames,       \* the invocations of dequeue() suspended at "await task()" (line 59)
    nextTid,      \* history: the number of the next callback handed to enqueue
    log,          \* history: the start and completion events of the callbacks
    errors,       \* the number of console.error calls of line 61
    inst,         \* per table name: how far the construction of its instance has come
    calls,        \* the number of client calls made so far (bounds the model)
    restarts,     \* the number of process restarts so far (bounds the model)
    last,         \* history: the last turn taken, with the value a client call returned
    quiet,        \* history: the client has called nothing but "new" in this process
    pend,         \* history: identifier -> record of a set() not followed by another operation on it
    ref,          \* history: the store as if every mutating call had acted at call time
    told,         \* history: number of a set's callback -> the value that set returned
    cycle         \* history: the operation that is at work on the staging location

vars == <<hostNewItem, structures, itemMemory, entities, queue, processing, frames,
          nextTid, log, errors, inst, calls, restarts, last, quiet, pend, ref, told,
          cycle>>

(***************************************************************************)
(* Bounds of the model and inputs of the client calls.                     *)
(***************************************************************************)
MaxCalls == 4
MaxRestarts == 1
MaxEnqueues == 4

MaxKeyLength == 12
MaxTableLength == 12

TableNames == {<<"t">>}
\* More names of tables: one that begins with another one's prefix, one of 13
\* characters, and one of 13 characters whose part before "_" is short.
PrefixTable == <<"t", "_", "i", "t", "e", "m", ":">>
LongTable == <<"n", "n", "n", "n", "n", "n", "n", "n", "n", "n", "n", "n", "n">>
UnderTable == <<"t", "_", "u", "u", "u", "u", "u", "u", "u", "u", "u", "u", "u">>
AllTables == TableNames \cup {PrefixTable, LongTable, UnderTable}
KeyA == <<"a">>
KeyColon == <<"a", ":", "b">>
KeyLong == <<"k", "k", "k", "k", "k", "k", "k", "k", "k", "k", "k", "k", "k">>
Keys == {KeyA, KeyColon, KeyLong}
ShortKeys == {k \in Keys : Len(k) <= MaxKeyLength}
KeyX == <<"x">>
KeyItemX == <<"_", "i", "t", "e", "m", ":", "x">>
TableKeys == {KeyX, KeyItemX}
Items == {"r1", "r2"}
ItemLists == {<<"r1", "r2">>}

(***************************************************************************)
(* Finite maps and strings.                                                *)
(***************************************************************************)
EmptyMap == [x \in {} |-> 0]
Put(f, k, v) == [x \in (DOMAIN f) \cup {k} |-> IF x = k THEN v ELSE f[x]]
Drop(f, k) == [x \in (DOMAIN f) \ {k} |-> f[x]]

RECURSIVE Enum(_)
Enum(S) == IF S = {} THEN <<>>
           ELSE LET x == CHOOSE y \in S : TRUE IN <<x>> \o Enum(S \ {x})

StartsWith(s, p) == Len(s) >= Len(p) /\ SubSeq(s, 1, Len(p)) = p

\* The index of the first occurrence of character c in s at or after position i; 0 if none.
RECURSIVE IndexFrom(_, _, _)
IndexFrom(s, c, i) == IF i > Len(s) THEN 0
                      ELSE IF s[i] = c THEN i ELSE IndexFrom(s, c, i + 1)

\* s.split(c)[0]
SplitFirst(s, c) == LET i == IndexFrom(s, c, 1)
                    IN  IF i = 0 THEN s ELSE SubSeq(s, 1, i - 1)

\* s.split(c)[1], for an s that holds c
SplitSecond(s, c) == LET i == IndexFrom(s, c, 1)
                         j == IndexFrom(s, c, i + 1)
                     IN  IF j = 0 THEN SubSeq(s, i + 1, Len(s)) ELSE SubSeq(s, i + 1, j - 1)

\* this.table = table + '_item:' (line 100)
TableOf(name) == name \o <<"_", "i", "t", "e", "m", ":">>

\* this.table + key
IdOf(name, key) == TableOf(name) \o key

(***************************************************************************)
(* Values.  A cached value is one ItemStack or an array of ItemStacks; a   *)
(* returned value is one of these, undefined, a boolean or a raised Error. *)
(***************************************************************************)
Undefined == [t |-> "undefined"]
Stack(r) == [t |-> "stack", v |-> <<r>>]
Array(rs) == [t |-> "array", v |-> rs]
Bool(b) == [t |-> "bool", b |-> b]
Raised(how) == [t |-> "error", how |-> how]
Instance(name) == [t |-> "instance", name |-> name]

(***************************************************************************)
(* The state as one record, so that a synchronous turn, which may run      *)
(* several callbacks one inside the other, is computed by operators.       *)
(* Operators that meet a choice of the host return the set of outcomes.    *)
(***************************************************************************)
World == [structures |-> structures, itemMemory |-> itemMemory, entities |-> entities,
          cycle |-> cycle,
          queue |-> queue, processing |-> processing, frames |-> frames,
          nextTid |-> nextTid, log |-> log, errors |-> errors, inst |-> inst]

Store(w) == [structures |-> w.structures, itemMemory |-> w.itemMemory, entities |-> w.entities,
             cycle |-> w.cycle]

\* Callbacks handed to enqueue.
SetCb(name, key, item) == [tid |-> 0, kind |-> "set", name |-> name, key |-> key, item |-> item]
SetItemsCb(name, key, items) == [tid |-> 0, kind |-> "setItems", name |-> name, key |-> key, items |-> items]
LoadCb(name) == [tid |-> 0, kind |-> "load", name |-> name]
ClientCb(awaits, fail, nest) == [tid |-> 0, kind |-> "cb", awaits |-> awaits, fail |-> fail, nest |-> nest]

\* Suspended invocations of dequeue(): the callback's promise is settled, or the
\* callback is itself suspended at an await.
Settled(tid, st) == [tid |-> tid, st |-> st]
LoadFrame(tid, name, key, item, todo) ==
    [tid |-> tid, st |-> "load", name |-> name, key |-> key, item |-> item, todo |-> todo]
CbFrame(tid, left, fail) == [tid |-> tid, st |-> "cb", left |-> left, fail |-> fail]

(***************************************************************************)
(* The bodies of the store's operations.                                   *)
(***************************************************************************)
\* History of the staging location.  An operation is at work on it from the
\* first statement of its synchronous body that touches the structure or the
\* item entities to the last one (its return, its throw or its await); torn
\* records that an operation began while another one was at work.
NoCycle == [owner |-> "none", torn |-> FALSE]
Begin(w, who) == [w EXCEPT !.cycle = [owner |-> who, torn |-> @.torn \/ @.owner # "none"]]
End(w) == [w EXCEPT !.cycle.owner = "none"]

\* lines 185-188 and 314-317: an existing structure is deleted, with its cache entry
Evict(w, id) ==
    IF id \in DOMAIN w.structures
    THEN [w EXCEPT !.structures = Drop(@, id), !.itemMemory = Drop(@, id)]
    ELSE w

\* createFromWorld(id, dimension, location, location, {includeEntities: true}):
\* the structure holds every item entity alive in the block at that moment
Snapshot(w, id, by) == Put(w.structures, id, [ents |-> w.entities, by |-> by])

\* A faulty variant of SetTask: the callback awaits after spawnItem, so that the
\* turn ends with the old structure deleted and the new one not yet created.
SetTaskAwaits(w, cb) ==
    LET id == IdOf(cb.name, cb.key)
        w1 == Evict(Begin(w, "set"), id)
    IN  [w |-> [w1 EXCEPT !.entities = Append(@, cb.item)], threw |-> FALSE]

\* The callback of set (lines 183-199).  Line 189 assigns to newItem, which is
\* declared nowhere in the module.  Class bodies and modules are strict code: the
\* right-hand side is evaluated (the item is spawned) and the assignment then
\* throws a ReferenceError, unless the host's global object happens to carry a
\* property of that name, in which case the callback goes on.
SetTask(w, cb) ==
    LET id == IdOf(cb.name, cb.key)
        w1 == Evict(Begin(w, "set"), id)
        w2 == [w1 EXCEPT !.entities = Append(@, cb.item)]
        w3 == [w2 EXCEPT !.structures =
                             Snapshot(w2, id, [op |-> "set", name |-> cb.name,
                                               key |-> cb.key, item |-> cb.item]),
                         !.itemMemory = Put(@, id, Stack(cb.item)),
                         !.entities = SubSeq(@, 1, Len(@) - 1)]
    IN  IF hostNewItem THEN [w |-> End(w3), threw |-> FALSE]
        ELSE [w |-> End(w2), threw |-> TRUE]

\* The callback of setItems (lines 312-328): the spawned items are not removed.
SetItemsTask(w, cb) ==
    LET id == IdOf(cb.name, cb.key)
        w1 == Evict(Begin(w, "setItems"), id)
        w2 == [w1 EXCEPT !.entities = cb.items]
    IN  [w |-> End([w2 EXCEPT !.structures = Snapshot(w2, id, [op |-> "setItems", name |-> cb.name,
                                                               key |-> cb.key, item |-> ""]),
                              !.itemMemory = Put(@, id, Array(cb.items))]),
         threw |-> FALSE]

RemoveAt(s, i) == SubSeq(s, 1, i - 1) \o SubSeq(s, i + 1, Len(s))

\* getAsync (lines 213-223).  Every item of a placed structure stands where it was
\* spawned, so "closest: 1" may yield any of them.
GetAsync(w, id) ==
    IF id \notin DOMAIN w.structures THEN {[w |-> End(Begin(w, "getAsync")), ret |-> Undefined]}
    ELSE LET placed == w.structures[id].ents
             w1 == Begin(w, "getAsync")
         IN  IF placed = <<>>
             THEN {[w |-> End([w1 EXCEPT !.entities = <<>>]), ret |-> Undefined]}
             ELSE {[w |-> End([w1 EXCEPT !.entities = RemoveAt(placed, i)]),
                    ret |-> Stack(placed[i])] : i \in 1..Len(placed)}

\* getAllKeys (line 287), the identifiers in the order the host lists them
RECURSIVE KeysOf(_, _)
KeysOf(ids, table) ==
    IF ids = <<>> THEN <<>>
    ELSE (IF StartsWith(Head(ids), table) THEN <<SplitSecond(Head(ids), ":")>> ELSE <<>>)
         \o KeysOf(Tail(ids), table)

GetAllKeys(w, name) == KeysOf(Enum(DOMAIN w.structures), TableOf(name))

\* A faulty variant of KeyTooLong: the length of the key is not checked.
KeyNeverTooLong(key) == FALSE

\* the checks of lines 180, 310 and 339, and of lines 127-128
KeyTooLong(key) == Len(key) > MaxKeyLength
TableTooLong(name) == Len(SplitFirst(TableOf(name), "_")) > MaxTableLength

\* A faulty variant of Delete: the cache entry is left behind.
DeleteStructureOnly(w, id) == [w EXCEPT !.structures = Drop(@, id)]

\* delete (lines 252-256): the state it leaves
Delete(w, id) == [w EXCEPT !.structures = Drop(@, id), !.itemMemory = Drop(@, id)]

\* get (lines 168-171), has (line 276), hasAsync (line 282)
Get(w, id) == IF id \in DOMAIN w.itemMemory THEN w.itemMemory[id] ELSE Undefined
Has(w, id) == id \in DOMAIN w.itemMemory
HasAsync(w, id) == id \in DOMAIN w.structures

\* A faulty variant of DeleteOut: delete returns whether the cache held the key.
DeleteOutFromCache(w, id) == [w |-> Delete(w, id), ret |-> Bool(Has(w, id))]

\* delete (lines 252-256), with the value it returns: what structureManager.delete returned
DeleteOut(w, id) == [w |-> Delete(w, id), ret |-> Bool(HasAsync(w, id))]

\* A faulty variant of GetOnceOut: the key is deleted before it is read.
GetOnceDeleteFirst(w, id) ==
    LET o == DeleteOut(w, id)
    IN  [w |-> o.w, ret |-> Get(o.w, id)]

\* getOnce (lines 230-234)
GetOnceOut(w, id) ==
    LET item == Get(w, id)
        o == DeleteOut(w, id)
    IN  [w |-> o.w, ret |-> item]

(***************************************************************************)
(* AsyncQueue (lines 27-67).                                               *)
(***************************************************************************)
RECURSIVE Enqueue(_, _), Dequeue(_), Finally(_), AfterThrow(_), RunTask(_, _)

\* enqueue (lines 41-46)
Enqueue(w, cb) ==
    LET w1 == [w EXCEPT !.queue = Append(@, [cb EXCEPT !.tid = w.nextTid]),
                        !.nextTid = @ + 1]
    IN  IF ~w1.processing THEN Dequeue(w1) ELSE {w1}

Ended(w, tid) == [w EXCEPT !.log = Append(@, <<"end", tid>>)]
Failed(w, tid) == [w EXCEPT !.log = Append(@, <<"fail", tid>>)]

\* task() of line 59: the callback runs until it returns, throws or first awaits.
\* The result is what dequeue then holds: threw, or the frame it suspends with.
RunTask(w, cb) ==
    CASE cb.kind = "set" ->
            LET o == SetTask(w, cb)
            IN  {[w |-> IF o.threw THEN Failed(o.w, cb.tid) ELSE Ended(o.w, cb.tid),
                  threw |-> o.threw, frame |-> Settled(cb.tid, "ok")]}
      [] cb.kind = "setItems" ->
            LET o == SetItemsTask(w, cb)
            IN  {[w |-> Ended(o.w, cb.tid), threw |-> FALSE, frame |-> Settled(cb.tid, "ok")]}
      [] cb.kind = "load" ->
            \* lines 152-161, up to the first await
            LET keys == GetAllKeys(w, cb.name)
            IN  IF keys = <<>>
                THEN {[w |-> Ended([w EXCEPT !.inst[cb.name] = "loaded"], cb.tid),
                       threw |-> FALSE, frame |-> Settled(cb.tid, "ok")]}
                ELSE {[w |-> o.w, threw |-> FALSE,
                       frame |-> LoadFrame(cb.tid, cb.name, Head(keys), o.ret, Tail(keys))]
                      : o \in GetAsync(w, IdOf(cb.name, Head(keys)))}
      [] cb.kind = "cb" ->
            \* a callback of the client's own: it may enqueue another one, and then
            \* throws, returns, or awaits
            LET ws == IF cb.nest THEN Enqueue(w, ClientCb(0, FALSE, FALSE)) ELSE {w}
            IN  {IF cb.awaits > 0
                 THEN [w |-> w1, threw |-> FALSE, frame |-> CbFrame(cb.tid, cb.awaits, cb.fail)]
                 ELSE IF cb.fail
                 THEN [w |-> Failed(w1, cb.tid), threw |-> TRUE, frame |-> Settled(cb.tid, "fail")]
                 ELSE [w |-> Ended(w1, cb.tid), threw |-> FALSE, frame |-> Settled(cb.tid, "ok")]
                 : w1 \in ws}

\* catch (lines 60-61)
Catch(w) == [w EXCEPT !.errors = @ + 1]

\* A faulty variant of Claim: dequeue does not raise the flag.
ClaimNothing(w) == w

\* line 56
Claim(w) == [w EXCEPT !.processing = TRUE]

\* A faulty variant of Shift: pop() instead of shift().
ShiftLast(q) == [cb |-> q[Len(q)], rest |-> SubSeq(q, 1, Len(q) - 1)]

\* this.queue.shift() (line 57)
Shift(q) == [cb |-> Head(q), rest |-> Tail(q)]

\* A faulty variant of Finally: the flag is lowered and the queue is not looked at again.
FinallyStops(w) == {[w EXCEPT !.processing = FALSE]}

\* finally (lines 62-65)
Finally(w) ==
    LET w1 == [w EXCEPT !.processing = FALSE]
    IN  IF Len(w1.queue) > 0 THEN Dequeue(w1) ELSE {w1}

\* A faulty variant of AfterThrow: no try around the callback, the error escapes dequeue.
AfterThrowEscapes(w) == {w}

\* the callback threw or its promise was rejected: catch, then finally (lines 60-65)
AfterThrow(w) == Finally(Catch(w))

\* dequeue (lines 54-66), up to its await or, when the callback throws, to its end
Dequeue(w) ==
    IF w.processing \/ Len(w.queue) = 0 THEN {w}
    ELSE LET cb == Shift(w.queue).cb
             w1 == [Claim(w) EXCEPT !.queue = Shift(w.queue).rest,
                                    !.log = Append(@, <<"start", cb.tid>>)]
         IN  UNION {IF o.threw THEN AfterThrow(o.w)
                    ELSE {[o.w EXCEPT !.frames = @ \cup {o.frame}]}
                    : o \in RunTask(w1, cb)}

(***************************************************************************)
(* The initial state: a fresh process in a world that holds no structure.  *)
(***************************************************************************)
NoStore == [structures |-> EmptyMap, itemMemory |-> EmptyMap, entities |-> <<>>,
            cycle |-> NoCycle]

Init ==
    /\ hostNewItem \in BOOLEAN
    /\ structures = EmptyMap
    /\ itemMemory = EmptyMap
    /\ entities = <<>>
    /\ queue = <<>>
    /\ processing = FALSE
    /\ frames = {}
    /\ nextTid = 1
    /\ log = <<>>
    /\ errors = 0
    /\ inst = [n \in AllTables |-> "closed"]
    /\ calls = 0
    /\ restarts = 0
    /\ last = [op |-> "init"]
    /\ quiet = TRUE
    /\ pend = EmptyMap
    /\ ref = [s |-> NoStore, valid |-> TRUE, n |-> 0]
    /\ told = EmptyMap
    /\ cycle = NoCycle

Commit(w) ==
    /\ structures' = w.structures
    /\ itemMemory' = w.itemMemory
    /\ entities' = w.entities
    /\ cycle' = w.cycle
    /\ queue' = w.queue
    /\ processing' = w.processing
    /\ frames' = w.frames
    /\ nextTid' = w.nextTid
    /\ log' = w.log
    /\ errors' = w.errors
    /\ inst' = w.inst

\* The queue is Idle and no dequeue() is suspended.
Idle(w) == w.queue = <<>> /\ ~w.processing /\ w.frames = {}

\* No instance is on its way to enqueue its load.
Settledown(w) == \A n \in AllTables : w.inst[n] \in {"closed", "loaded", "rejected"}

\* History of the mutating calls: from a state in which nothing is in flight, the
\* store as it would be had each of set, setItems and delete acted when called.
RefCall(fromWorld, fromRef) ==
    IF Idle(World)
    THEN [s |-> Store(fromWorld), valid |-> Settledown(World), n |-> 1]
    ELSE [s |-> Store(fromRef), valid |-> ref.valid, n |-> ref.n + 1]

RefVoid == [ref EXCEPT !.valid = FALSE]

Called(op, name, key, ret) ==
    /\ calls' = calls + 1
    /\ quiet' = (quiet /\ op = "new")
    /\ last' = [op |-> op, name |-> name, key |-> key, ret |-> ret,
                before |-> IF last.op = op /\ last.name = name /\ last.key = key
                           THEN last.ret ELSE [t |-> "none"]]

Stepped ==
    /\ last' = [op |-> "step"]
    /\ UNCHANGED <<calls, restarts, hostNewItem, quiet, told>>

Open(name) == inst[name] # "closed"

(***************************************************************************)
(* The client's calls.                                                     *)
(***************************************************************************)
\* new SRCItemDatabase(name): the constructor (lines 96-113) calls init (lines
\* 126-131), which runs load and loadZone up to the first await of loadZone (line
\* 142).  init is an async function: for a long name its throw (line 129) rejects
\* the promise it returns, which the constructor drops (line 112), and the
\* constructor returns the instance like for any other name.
New(name) ==
    /\ calls < MaxCalls
    /\ inst[name] = "closed"
    /\ inst' = [inst EXCEPT ![name] =
                   IF TableTooLong(name)
                   THEN "rejected" ELSE "zone1"]
    /\ Called("new", name, <<>>, Instance(name))
    /\ ref' = RefVoid
    /\ UNCHANGED <<hostNewItem, structures, itemMemory, entities, queue, processing,
                   frames, nextTid, log, errors, restarts, pend, told, cycle>>

\* set (lines 179-201)
Set(name, key, item) ==
    /\ calls < MaxCalls
    /\ Open(name)
    /\ IF KeyTooLong(key)
       THEN /\ Called("set", name, key, Raised("rejected"))
            /\ UNCHANGED <<structures, itemMemory, entities, queue, processing, frames,
                           nextTid, log, errors, inst, pend, ref, told, cycle>>
       ELSE LET cb == SetCb(name, key, item)
            IN  /\ \E w \in Enqueue(World, cb) :
                      LET success == \E i \in 1..Len(w.log) : w.log[i] = <<"end", nextTid>>
                      IN  /\ Commit(w)
                          /\ Called("set", name, key, Bool(success))
                          /\ told' = Put(told, nextTid, success)
                /\ pend' = Put(pend, IdOf(name, key), item)
                /\ ref' = RefCall(SetTask(World, cb).w, SetTask(ref.s, cb).w)
    /\ UNCHANGED <<hostNewItem, restarts>>

\* setItems (lines 309-329)
SetItems(name, key, items) ==
    /\ calls < MaxCalls
    /\ Open(name)
    /\ IF KeyTooLong(key)
       THEN /\ Called("setItems", name, key, Raised("thrown"))
            /\ UNCHANGED <<structures, itemMemory, entities, queue, processing, frames,
                           nextTid, log, errors, inst, pend, ref, cycle>>
       ELSE LET cb == SetItemsCb(name, key, items)
            IN  /\ \E w \in Enqueue(World, cb) : Commit(w)
                /\ Called("setItems", name, key, Undefined)
                /\ pend' = Drop(pend, IdOf(name, key))
                /\ ref' = RefCall(SetItemsTask(World, cb).w, SetItemsTask(ref.s, cb).w)
    /\ UNCHANGED <<told, hostNewItem, restarts>>

\* delete (lines 252-256)
DeleteKey(name, key) ==
    /\ calls < MaxCalls
    /\ Open(name)
    /\ LET id == IdOf(name, key)
           o == DeleteOut(World, id)
       IN  /\ Commit(o.w)
           /\ Called("delete", name, key, o.ret)
           /\ pend' = Drop(pend, id)
           /\ ref' = RefCall(Delete(World, id), Delete(ref.s, id))
    /\ UNCHANGED <<told, hostNewItem, restarts>>

\* getOnce (lines 230-234)
GetOnce(name, key) ==
    /\ calls < MaxCalls
    /\ Open(name)
    /\ LET id == IdOf(name, key)
           o == GetOnceOut(World, id)
       IN  /\ Commit(o.w)
           /\ Called("getOnce", name, key, o.ret)
           /\ pend' = Drop(pend, id)
    /\ ref' = RefVoid
    /\ UNCHANGED <<told, hostNewItem, restarts>>

\* keys.forEach(key => this.delete(key))
RECURSIVE DeleteAll(_, _, _)
DeleteAll(w, name, keys) ==
    IF keys = <<>> THEN w
    ELSE DeleteAll(Delete(w, IdOf(name, Head(keys))), name, Tail(keys))

\* clear (lines 267-270)
Clear(name) ==
    /\ calls < MaxCalls
    /\ Open(name)
    /\ LET keys == GetAllKeys(World, name)
       IN  /\ Commit(DeleteAll(World, name, keys))
           /\ pend' = [id \in (DOMAIN pend) \ {IdOf(name, keys[i]) : i \in 1..Len(keys)}
                          |-> pend[id]]
    /\ Called("clear", name, <<>>, Bool(TRUE))
    /\ ref' = RefVoid
    /\ UNCHANGED <<told, hostNewItem, restarts>>

\* getAsync (lines 213-223), called by the client
GetAsyncCall(name, key) ==
    /\ calls < MaxCalls
    /\ Open(name)
    /\ \E o \in GetAsync(World, IdOf(name, key)) :
          /\ Commit(o.w)
          /\ Called("getAsync", name, key, o.ret)
    /\ pend' = Drop(pend, IdOf(name, key))
    /\ ref' = RefVoid
    /\ UNCHANGED <<told, hostNewItem, restarts>>

\* getItems (lines 338-356)
GetItems(name, key) ==
    /\ calls < MaxCalls
    /\ Open(name)
    /\ LET id == IdOf(name, key)
       IN  IF KeyTooLong(key)
           THEN /\ Called("getItems", name, key, Raised("thrown"))
                /\ UNCHANGED <<structures, itemMemory, entities>>
           ELSE IF ~Has(World, id) \/ ~HasAsync(World, id)
           THEN /\ Called("getItems", name, key, Array(<<>>))
                /\ UNCHANGED <<structures, itemMemory, entities>>
           ELSE LET placed == structures[id].ents
                IN  /\ entities' = <<>>
                    /\ structures' = structures
                    /\ IF placed = <<>>
                       THEN /\ Called("getItems", name, key, Undefined)
                            /\ itemMemory' = itemMemory
                       ELSE /\ Called("getItems", name, key, Array(placed))
                            /\ itemMemory' = Put(itemMemory, id, Array(placed))
    /\ cycle' = End(Begin(World, "getItems")).cycle
    /\ pend' = Drop(pend, IdOf(name, key))
    /\ ref' = RefVoid
    /\ UNCHANGED <<told, hostNewItem, restarts, queue, processing, frames, nextTid, log, errors, inst>>

\* this.asyncQueue.enqueue(callback) with a callback of the client's own
EnqueueCb(awaits, fail, nest) ==
    /\ nextTid <= MaxEnqueues
    /\ \E w \in Enqueue(World, ClientCb(awaits, fail, nest)) : Commit(w)
    /\ Called("enqueue", <<>>, <<>>, Undefined)
    /\ UNCHANGED <<told, hostNewItem, restarts, pend, ref>>

\* The process ends and a new one starts: the world keeps its structures and
\* entities, the module's state is new.
Restart ==
    /\ restarts < MaxRestarts
    /\ restarts' = restarts + 1
    /\ itemMemory' = EmptyMap
    /\ queue' = <<>>
    /\ processing' = FALSE
    /\ frames' = {}
    /\ nextTid' = 1
    /\ log' = <<>>
    /\ errors' = 0
    /\ inst' = [n \in AllTables |-> "closed"]
    /\ last' = [op |-> "restart"]
    /\ quiet' = TRUE
    /\ pend' = EmptyMap
    /\ told' = EmptyMap
    /\ cycle' = NoCycle
    /\ ref' = [s |-> [structures |-> structures, itemMemory |-> EmptyMap, entities |-> entities,
                      cycle |-> NoCycle],
               valid |-> TRUE, n |-> 0]
    /\ UNCHANGED <<hostNewItem, structures, entities, calls>>

(***************************************************************************)
(* The turns of the scheduler.                                             *)
(***************************************************************************)
\* loadZone (lines 137-145) resumes after one of its three awaits.
ZoneStep(name) ==
    /\ inst[name] \in {"zone1", "zone2", "zone3"}
    /\ inst' = [inst EXCEPT ![name] =
                   CASE @ = "zone1" -> "zone2" [] @ = "zone2" -> "zone3" [] @ = "zone3" -> "zoned"]
    /\ Stepped
    /\ UNCHANGED <<structures, itemMemory, entities, queue, processing, frames,
                   nextTid, log, errors, pend, ref, cycle>>

\* load (lines 150-162) resumes after loadZone and enqueues its callback.
LoadEnqueue(name) ==
    /\ inst[name] = "zoned"
    /\ \E w \in Enqueue([World EXCEPT !.inst[name] = "queued"], LoadCb(name)) : Commit(w)
    /\ Stepped
    /\ ref' = RefVoid
    /\ UNCHANGED pend

\* The callback of load resumes after "await this.getAsync(key)" (lines 156-159).
LoadStep(f) ==
    /\ f.st = "load"
    /\ LET id == IdOf(f.name, f.key)
           w1 == IF f.item # Undefined
                 THEN [World EXCEPT !.itemMemory = Put(@, id, f.item)] ELSE World
           rest == w1.frames \ {f}
       IN  /\ IF f.todo = <<>>
              THEN Commit(Ended([w1 EXCEPT !.frames = rest \cup {Settled(f.tid, "ok")},
                                           !.inst[f.name] = "loaded"], f.tid))
              ELSE \E o \in GetAsync(w1, IdOf(f.name, Head(f.todo))) :
                      Commit([o.w EXCEPT !.frames = rest \cup
                                 {LoadFrame(f.tid, f.name, Head(f.todo), o.ret, Tail(f.todo))}])
           /\ pend' = IF f.item # Undefined THEN Drop(pend, id) ELSE pend
    /\ Stepped
    /\ ref' = RefVoid

\* A callback of the client's own resumes after an await.
CbStep(f) ==
    /\ f.st = "cb"
    /\ LET rest == frames \ {f}
       IN  Commit(IF f.left > 1
                  THEN [World EXCEPT !.frames = rest \cup {CbFrame(f.tid, f.left - 1, f.fail)}]
                  ELSE IF f.fail
                  THEN Failed([World EXCEPT !.frames = rest \cup {Settled(f.tid, "fail")}], f.tid)
                  ELSE Ended([World EXCEPT !.frames = rest \cup {Settled(f.tid, "ok")}], f.tid))
    /\ Stepped
    /\ UNCHANGED <<pend, ref>>

\* dequeue resumes after "await task()" (lines 59-65).
Resume(f) ==
    /\ f.st \in {"ok", "fail"}
    /\ LET w1 == [World EXCEPT !.frames = @ \ {f}]
       IN  \E w \in (IF f.st = "fail" THEN AfterThrow(w1) ELSE Finally(w1)) : Commit(w)
    /\ Stepped
    /\ UNCHANGED <<pend, ref>>

Next ==
    \/ \E n \in TableNames : New(n)
    \/ \E n \in TableNames, k \in Keys, i \in Items : Set(n, k, i)
    \/ \E n \in TableNames, k \in Keys, l \in ItemLists : SetItems(n, k, l)
    \/ \E n \in TableNames, k \in ShortKeys : DeleteKey(n, k)
    \/ \E n \in TableNames, k \in ShortKeys : GetOnce(n, k)
    \/ \E n \in TableNames : Clear(n)
    \/ \E n \in TableNames, k \in ShortKeys : GetAsyncCall(n, k)
    \/ \E n \in TableNames, k \in Keys : GetItems(n, k)
    \/ Restart
    \/ \E n \in TableNames : ZoneStep(n)
    \/ \E n \in TableNames : LoadEnqueue(n)
    \/ \E f \in frames : LoadStep(f)
    \/ \E f \in frames : Resume(f)

Spec == Init /\ [][Next]_vars

\* The queue alone, under callbacks of every kind: returning, throwing, awaiting
\* and then resolving or rejecting, and enqueuing from inside.
QueueNext ==
    \/ \E a \in 0..2, b \in BOOLEAN : EnqueueCb(a, b, FALSE)
    \/ EnqueueCb(0, FALSE, TRUE)
    \/ \E f \in frames : CbStep(f)
    \/ \E f \in frames : Resume(f)

QueueSpec == Init /\ [][QueueNext]_vars

\* The queue under the host's scheduling: every task terminates, that is, a
\* promise that is awaited (lines 59 and the callbacks' own awaits) is settled and
\* its continuation is run.
FairQueueSpec ==
    /\ QueueSpec
    /\ WF_vars(\E f \in frames : CbStep(f))
    /\ WF_vars(\E f \in frames : Resume(f))

\* Several tables, with names and keys that meet in their identifiers.
TableNext ==
    \/ \E n \in AllTables : New(n)
    \/ \E n \in AllTables, k \in TableKeys : Set(n, k, "r1")
    \/ \E n \in AllTables, k \in TableKeys : DeleteKey(n, k)
    \/ \E n \in AllTables : Clear(n)
    \/ Restart
    \/ \E n \in AllTables : ZoneStep(n)
    \/ \E n \in AllTables : LoadEnqueue(n)
    \/ \E f \in frames : LoadStep(f)
    \/ \E f \in frames : Resume(f)

TableSpec == Init /\ [][TableNext]_vars

(***************************************************************************)
(* The claims.                                                             *)
(***************************************************************************)

\* C1: after set(k, r) with length(k) <= 12, once the queue has drained and with
\* no later operation on k, has(k) is true and get(k) returns a record
\* equivalent to r.
C1_SetThenGet ==
    Idle(World) =>
        \A id \in DOMAIN pend : Has(World, id) /\ Get(World, id) = Stack(pend[id])

\* C2: in a fresh process, once table t is opened and its load has completed
\* (and the client has called nothing else), every key k of t whose structure was
\* written by an earlier set(k, r) has has(k) true and get(k) equivalent to r.
C2_ReopenLoadsEverySet ==
    \A n \in TableNames :
        (inst[n] = "loaded" /\ quiet) =>
            \A id \in DOMAIN structures :
                LET by == structures[id].by
                IN  (by.op = "set" /\ by.name = n) =>
                        /\ Has(World, IdOf(n, by.key))
                        /\ Get(World, IdOf(n, by.key)) = Stack(by.item)

\* C3: set, setItems and delete take effect in call order: once the queue is idle
\* again, the structures and the cache are those obtained by applying the calls
\* one after another in the order they were made.
C3_MutationsInCallOrder ==
    (Idle(World) /\ ref.valid) =>
        /\ structures = ref.s.structures
        /\ itemMemory = ref.s.itemMemory

\* The callbacks that have started and not completed, read off the history.
Started == {log[i][2] : i \in {j \in 1..Len(log) : log[j][1] = "start"}}
Completed == {log[i][2] : i \in {j \in 1..Len(log) : log[j][1] \in {"end", "fail"}}}
Running == Started \ Completed

\* C4: at most one enqueued callback has started and not yet completed, whatever
\* the enqueue calls: while a callback is suspended, and from inside a callback.
C4_AtMostOneRunning == Cardinality(Running) <= 1

\* C4's case: a callback is suspended while two more wait, one of them enqueued
\* from inside a callback (more callbacks than client calls).
C4_Witness ==
    /\ Cardinality(Running) = 1
    /\ Len(queue) >= 2
    /\ nextTid - 1 > calls

\* C5: callbacks start and complete in the order of their enqueue calls, each
\* one completing before the next starts.
C5_StrictFifo ==
    \A j \in 1..Len(log) :
        /\ log[j][2] = (j + 1) \div 2
        /\ (j % 2 = 1) => log[j][1] = "start"
        /\ (j % 2 = 0) => log[j][1] \in {"end", "fail"}

\* C5's case: three callbacks have completed, the fourth is suspended for the
\* second time, and a fifth one waits.
C5_Witness ==
    /\ Len(log) >= 7
    /\ \E f \in frames : f.st = "cb" /\ f.left = 1
    /\ queue # <<>>

CountOf(kind) == Cardinality({j \in 1..Len(log) : log[j][1] = kind})

\* C6: a callback that throws or rejects never stalls the queue: its error is
\* caught and logged by dequeue, a waiting callback always has a suspended
\* dequeue that will start it, once nothing is suspended every callback
\* enqueued, before or after the failure, has been run, and they run in the
\* order of their enqueue calls.
C6_FailureDoesNotStall ==
    /\ queue # <<>> => (processing /\ frames # {})
    /\ frames = {} => (~processing /\ Len(log) = 2 * (nextTid - 1))
    /\ errors = CountOf("fail") - Cardinality({f \in frames : f.st = "fail"})
    /\ \A i, j \in 1..Len(log) : i < j => log[i][2] <= log[j][2]

\* C6's case: a callback threw, another one rejected, and a callback has
\* completed after the second failure.
C6_Witness ==
    /\ errors >= 2
    /\ \E f \in frames : f.st = "ok"
    /\ \E i, j \in 1..Len(log) : i < j /\ log[i][1] = "fail" /\ log[j][1] = "end"
    /\ log[Len(log)][1] = "end"
    /\ log[Len(log) - 2][1] = "fail"

\* C7: in the state right after delete(k) returns, has(k) is false, get(k) is
\* absent and hasAsync(k) is false.
C7_DeleteRemovesBoth ==
    last.op = "delete" =>
        LET id == IdOf(last.name, last.key)
        IN  ~Has(World, id) /\ Get(World, id) = Undefined /\ ~HasAsync(World, id)

\* C7's case: delete removed a structure.
C7_Witness == last.op = "delete" /\ last.ret = Bool(TRUE)

\* C8: getOnce(k) returns what get(k) returns and leaves the state delete(k)
\* leaves; a second getOnce(k) right after it returns absent.
C8_GetOnceIsGetThenDelete ==
    [][(calls' = calls + 1 /\ last'.op = "getOnce") =>
          LET id == IdOf(last'.name, last'.key)
          IN  /\ last'.ret = Get(World, id)
              /\ World' = Delete(World, id)
              /\ last'.before.t # "none" => last'.ret = Undefined]_vars

\* C8's case: a getOnce returned a record and the getOnce right after it returned absent.
C8_Witness ==
    last.op = "getOnce" /\ last.before.t = "stack" /\ last.ret = Undefined

\* C9: delete(k) returns true exactly when a structure for k existed; on a key
\* that is absent (no structure, no cache entry) it returns false and changes
\* nothing, so a second delete(k) leaves the state of the first.
C9_DeleteReturnsExisted ==
    [][(calls' = calls + 1 /\ last'.op = "delete") =>
          LET id == IdOf(last'.name, last'.key)
          IN  /\ last'.ret = Bool(HasAsync(World, id))
              /\ (~HasAsync(World, id) /\ ~Has(World, id)) =>
                    (last'.ret = Bool(FALSE) /\ World' = World)
              /\ last'.before.t # "none" => (last'.ret = Bool(FALSE) /\ World' = World)]_vars

\* C9's case: a delete returned true and the delete right after it returned false.
C9_Witness ==
    last.op = "delete" /\ last.before = Bool(TRUE) /\ last.ret = Bool(FALSE)

\* C10: for a key longer than 12 characters, set and setItems raise an error to
\* the caller and nothing is enqueued: the queue, the cache, the structures and
\* the staging area are unchanged.
C10_LongKeyRefused ==
    [][(calls' = calls + 1 /\ last'.op \in {"set", "setItems"} /\ Len(last'.key) > MaxKeyLength) =>
          (last'.ret.t = "error" /\ World' = World)]_vars

\* C10's case: setItems has refused a key of 13 characters while the store held something.
C10_Witness ==
    /\ last.op = "setItems"
    /\ Len(last.key) = MaxKeyLength + 1
    /\ last.ret.t = "error"
    /\ structures # EmptyMap

\* C11: for a table name longer than 12 characters, new SRCItemDatabase(name)
\* raises an error to its caller and constructs no table, and neither the
\* staging zone is initialized nor a load is enqueued for that name.
C11_LongTableNameRefused ==
    \A n \in AllTables :
        Len(n) > MaxTableLength =>
            /\ ~Open(n)
            /\ (last.op = "new" /\ last.name = n) => last.ret.t = "error"

\* The callback of a load has started and is suspended at one of its awaits.
LoadRunning == \E f \in frames : f.st = "load"

\* C12: between the start of a load's callback and its completion, no call of the
\* client (set, setItems, delete, getOnce, clear, getAsync, getItems) changes the
\* cache, the structures or the staging area.
C12_LoadNotInterleaved ==
    [][(LoadRunning /\ calls' = calls + 1) => Store(World') = Store(World)]_vars

\* C13: whenever the queue is idle and no call is executing, no item entity is
\* alive at the staging location: every set, setItems, getAsync, getItems and
\* load cycle has removed what it spawned or placed, also when its task failed.
C13_StagingEmptyWhenIdle == Idle(World) => entities = <<>>

\* The set of the elements of a sequence.
Range(s) == {s[i] : i \in 1..Len(s)}

\* C14: with the queue idle, getAllKeys() of a table is exactly the keys (of at
\* most 12 characters) for which the table's hasAsync is true.
C14_AllKeysAreTheStoredKeys ==
    Idle(World) =>
        \A n \in TableNames :
            /\ \A k \in ShortKeys :
                  (k \in Range(GetAllKeys(World, n))) <=> HasAsync(World, IdOf(n, k))
            /\ \A k \in Range(GetAllKeys(World, n)) : HasAsync(World, IdOf(n, k))

\* What the reading operations of table n return in world w.
View(w, n) ==
    [get |-> [k \in TableKeys |-> Get(w, IdOf(n, k))],
     has |-> [k \in TableKeys |-> Has(w, IdOf(n, k))],
     hasAsync |-> [k \in TableKeys |-> HasAsync(w, IdOf(n, k))],
     getAsync |-> [k \in TableKeys |-> {o.ret : o \in GetAsync(w, IdOf(n, k))}],
     getAllKeys |-> Range(GetAllKeys(w, n))]

ShortTables == {n \in AllTables : Len(n) <= MaxTableLength}

\* C15: for two distinct table names of at most 12 characters, a set, delete or
\* clear called on the one changes nothing of what get, has, hasAsync, getAsync
\* and getAllKeys return on the other.
C15_TablesDoNotInterfere ==
    [][(calls' = calls + 1 /\ last'.op \in {"set", "delete", "clear"}
                           /\ last'.name \in ShortTables) =>
          \A m \in ShortTables \ {last'.name} : View(World', m) = View(World, m)]_vars

\* C16: right after clear() returns with the queue idle, the table holds no
\* structure and no cache entry: getAllKeys() is empty, has(k) and hasAsync(k) are
\* false for every key k of at most 12 characters, and clear() returned true.
C16_ClearEmptiesTheTable ==
    (last.op = "clear" /\ Idle(World)) =>
        /\ last.ret = Bool(TRUE)
        /\ GetAllKeys(World, last.name) = <<>>
        /\ \A k \in ShortKeys :
              ~Has(World, IdOf(last.name, k)) /\ ~HasAsync(World, IdOf(last.name, k))

\* C17: the value a set(key, item) returned is true exactly when its callback
\* saved the item, whether the queue was idle or draining when set was called.
C17_SetReturnsSaved ==
    \A tid \in (DOMAIN told) \cap Completed :
        told[tid] <=> (\E i \in 1..Len(log) : log[i] = <<"end", tid>>)

\* C18: whatever came before, the structure written by a set(k, r) holds exactly
\* the one record r, so that getAsync(k) returns r and nothing else, and once
\* the queue is idle with no later operation on k, get(k) returns r as well.
C18_SnapshotHoldsOneRecord ==
    \A id \in DOMAIN structures :
        LET by == structures[id].by
        IN  by.op = "set" =>
                /\ structures[id].ents = <<by.item>>
                /\ \A o \in GetAsync(World, id) : o.ret = Stack(by.item)
                /\ (Idle(World) /\ id \in DOMAIN pend) => Get(World, id) = Stack(by.item)

\* C19: whenever the queue is idle and no table is being opened or loaded, every
\* identifier in the cache has a structure.
C19_CachedKeysAreStored ==
    (Idle(World) /\ Settledown(World)) => (DOMAIN itemMemory) \subseteq (DOMAIN structures)

\* C20: the statements with which one operation works on the staging location
\* (a set or setItems callback, a getAsync or getItems call, the getAsync of one
\* key of a load) run without a statement of another operation in between: at
\* the end of every turn no operation is at work on the staging location, none
\* has ever begun while another was at work, and no callback of a set is started
\* and not completed, so that no getAsync, getItems or delete, which run outside
\* the queue, meets a set between its deleting the old structure and its
\* creating the new one.
C20_StagingCyclesAreAtomic ==
    /\ cycle = NoCycle
    /\ Running \cap (DOMAIN told) = {}

\* C20's case: the client's getAsync has read a record from the staging location
\* while the callback of a load was suspended between two keys and the callback
\* of a set waited in the queue.
C20_Witness ==
    /\ last.op = "getAsync"
    /\ last.ret.t = "stack"
    /\ LoadRunning
    /\ \E i \in 1..Len(queue) : queue[i].kind = "set"

\* The number of times callback t was started.
StartsOf(t) == Cardinality({j \in 1..Len(log) : log[j] = <<"start", t>>})

\* C21: provided every task terminates, every enqueued callback is eventually
\* run, and run exactly once, and the queue then comes back to idle with nothing
\* pending; and at the end of no turn is the flag processing lowered while
\* callbacks are still pending.
C21_QueueLiveness ==
    /\ [](~processing => queue = <<>>)
    /\ [](\A t \in 1..(nextTid - 1) : StartsOf(t) <= 1)
    /\ \A t \in 1..MaxEnqueues : (nextTid > t) ~> (t \in Completed /\ StartsOf(t) = 1)
    /\ (queue # <<>>) ~> Idle(World)
    /\ []<>Idle(World)

\* C21's case: the queue is idle again after at least three callbacks, one of
\* which failed and one of which had to wait behind a suspended one, and each has
\* run once.
C21_Witness ==
    /\ Idle(World)
    /\ nextTid > 3
    /\ errors >= 1
    /\ Len(log) = 2 * (nextTid - 1)
    /\ \A t \in 1..(nextTid - 1) : StartsOf(t) = 1 /\ t \in Completed
    /\ calls >= 3

====
